---- MODULE Spec2Model ----
(***************************************************************************)
(* FtxWsClient (src/src/ws/ftx_ws_client.rs): the websocket client of the  *)
(* FTX connector.  The client is a single task (&mut self): the only       *)
(* nondeterminism is what the transport does at each await point (a frame  *)
(* arrives, the keepalive timer ticks, a read or a write fails) and which   *)
(* operation the consumer calls next.                                      *)
(***************************************************************************)
EXTENDS Integers, Sequences, FiniteSets, TLC

(* ------------------------------ bounds -------------------------------- *)
\* longest desired-channel vector explored
MaxChannels == 2
\* payload-carrying frames the transport delivers in one run
MaxFrames == 2
\* keepalive ticks explored within one call
MaxPings == 1
\* payload-free non-matching frames delivered one at a time in one wait;
\* beyond that they come as one run up to the end of the window
MaxSingles == 1

(* ------------------------- program constants -------------------------- *)
\* the range written "0..=100"
WindowInclusive == 100 + 1

\* "for _ in 0..100": frames inspected for one confirmation
ConfirmationWindow == 100

(* ------------------------------ channels ------------------------------ *)
NoSymbol == ""
BTC == "BTC/USD"
ETH == "ETH/USD"

Orderbook(s) == [tag |-> "Orderbook", symbol |-> s]
Trades(s) == [tag |-> "Trades", symbol |-> s]
Ticker(s) == [tag |-> "Ticker", symbol |-> s]
Fills == [tag |-> "Fills", symbol |-> NoSymbol]
Orders == [tag |-> "Orders", symbol |-> NoSymbol]

\* the channels the consumer asks for in this model
Channels == {Orderbook(BTC), Trades(ETH), Fills, Orders}

\* the (channel, market) pair a control frame carries for a channel
WireName(c) ==
  CASE c.tag = "Orderbook" -> [channel |-> "orderbook", market |-> c.symbol]
    [] c.tag = "Trades" -> [channel |-> "trades", market |-> c.symbol]
    [] c.tag = "Ticker" -> [channel |-> "ticker", market |-> c.symbol]
    [] c.tag = "Fills" -> [channel |-> "fills", market |-> ""]
    [] c.tag = "Orders" -> [channel |-> "orders", market |-> ""]

\* outbound frames
ControlFrame(op, c) ==
  [op |-> op, channel |-> WireName(c).channel, market |-> WireName(c).market]

\* FtxAuthSettings.api_secret of the settings the client is built with
ApiSecret == "secret"

\* readings of FtxAuthSettings::generate_timestamp (ms since the epoch)
Timestamps == {1500, 2500}

RECURSIVE Digits(_)
\* format!("{}", n) for an unsigned integer: its decimal digits
Digits(n) == IF n < 10 THEN <<n>> ELSE Append(Digits(n \div 10), n % 10)

\* HMAC::mac(input, key) and hex::encode(bytes) of the hmac_sha256 and hex
\* crates: each value stands for the result on exactly these arguments
Mac(input, key) == <<"hmac_sha256", key, input>>
HexEncode(bytes) == <<"hex", bytes>>

\* FtxAuthSettings::generate_sign
generate_sign(secret, method, timestamp) ==
  LET sign_payload == Digits(timestamp) \o <<method>> IN
    HexEncode(Mac(sign_payload, secret))

\* "timestamp as u64": the low 64 bits of the u128; a clock reading is
\* below 2^64, and so is every integer of the model
AsU64(t) == t

\* the login frame with the time in seconds, the signature over milliseconds
LoginFrame_TimeInSeconds(timestamp) ==
  [op |-> "login", channel |-> "", market |-> "",
   sign |-> generate_sign(ApiSecret, "websocket_login", timestamp),
   time |-> AsU64(timestamp \div 1000)]

\* the login frame authenticate writes; timestamp is its one clock reading
LoginFrame(timestamp) ==
  [op |-> "login", channel |-> "", market |-> "",
   sign |-> generate_sign(ApiSecret, "websocket_login", timestamp),
   time |-> AsU64(timestamp)]
PingFrame == [op |-> "ping", channel |-> "", market |-> ""]

OpName(subscribe) == IF subscribe THEN "subscribe" ELSE "unsubscribe"

(* --------------------------- sequence helpers ------------------------- *)
Contains(s, x) == \E i \in 1..Len(s) : s[i] = x
NoDuplicates(s) == \A i, j \in 1..Len(s) : s[i] = s[j] => i = j
Count(s, x) == Cardinality({i \in 1..Len(s) : s[i] = x})
\* retain with the predicate inverted
RetainIn(s, cs) == SelectSeq(s, LAMBDA c : Contains(cs, c))

\* Vec::retain(|c| !cs.contains(c))
RetainNotIn(s, cs) == SelectSeq(s, LAMBDA c : ~Contains(cs, c))

(* --------------------------- inbound frames --------------------------- *)
NoMarket == "None"
NoPayload == [kind |-> "none", n |-> 0]
TickerPayload == [kind |-> "ticker", n |-> 1]
TradesPayload(n) == [kind |-> "trades", n |-> n]
OrderbookPayload == [kind |-> "orderbook", n |-> 1]
FillPayload == [kind |-> "fill", n |-> 1]
OrderPayload == [kind |-> "order", n |-> 1]

\* a text frame on the wire: {"type", "channel", "market", "data"}
WireFrame(t, ch, m, d) == [type |-> t, channel |-> ch, market |-> m, data |-> d]

\* confirmations the server may send: one per channel of the model
ConfirmationFrames ==
  {WireFrame(t, WireName(c).channel,
             IF WireName(c).market = "" THEN NoMarket ELSE WireName(c).market,
             NoPayload) : t \in {"Subscribed", "Unsubscribed"}, c \in Channels}

\* frames without payload that are no confirmation
PlainFrames ==
  {WireFrame(t, "", NoMarket, NoPayload) : t \in {"Error", "Info", "Pong"}}

\* frames with a payload; a Pong or a confirmation with a payload is what a
\* data path that does not look at the tag would deliver
PayloadFrames ==
  { WireFrame("Update", "ticker", BTC, TickerPayload),
    WireFrame("Update", "trades", ETH, TradesPayload(2)),
    WireFrame("Pong", "ticker", BTC, TickerPayload),
    WireFrame("Unsubscribed", "ticker", BTC, TickerPayload),
    WireFrame("Partial", "orderbook", BTC, OrderbookPayload),
    WireFrame("Update", "fills", NoMarket, FillPayload),
    WireFrame("Update", "orders", NoMarket, OrderPayload) }

WireFrames == ConfirmationFrames \cup PlainFrames \cup PayloadFrames

NoFrame == WireFrame("None", "", NoMarket, NoPayload)

\* serde_json::from_str::<WsResponse>: the struct has market, type and data;
\* the wire's "channel" field is not part of it.  seq is the identity of
\* the payload (the arrival number of the frame that carried it).
Decode(f, seq) == [type |-> f.type, market |-> f.market, data |-> f.data, seq |-> seq]

\* one (Option<Symbol>, EventData) of the buffer
Event(m, kind, seq, idx) == [market |-> m, kind |-> kind, seq |-> seq, idx |-> idx]

\* the EventData variant a payload becomes
EventKind(kind) == IF kind = "trades" THEN "Trade" ELSE kind

\* add_to_buffer without the loop over the trades of a list
add_to_buffer_FirstTrade(b, response) ==
  IF response.data.kind = "none" THEN b
  ELSE Append(b, Event(response.market, EventKind(response.data.kind),
                       response.seq, 1))

\* add_to_buffer pushing the events without the market of the response
add_to_buffer_MarketDropped(b, response) ==
  IF response.data.kind = "none" THEN b
  ELSE IF response.data.kind = "trades"
    THEN b \o [i \in 1..response.data.n |->
                 Event(NoMarket, "Trade", response.seq, i)]
    ELSE Append(b, Event(NoMarket, EventKind(response.data.kind),
                         response.seq, 1))

\* FtxWsClient::add_to_buffer
add_to_buffer(b, response) ==
  IF response.data.kind = "none" THEN b
  ELSE IF response.data.kind = "trades"
    THEN b \o [i \in 1..response.data.n |->
                 Event(response.market, "Trade", response.seq, i)]
    ELSE Append(b, Event(response.market, EventKind(response.data.kind),
                         response.seq, 1))

(* ----------------------- what the transport does ---------------------- *)
\* one completion of the select! in next_response
Outcome(o, f) == [o |-> o, frame |-> f]

Outcomes(st) ==
  IF st = "open"
    THEN {Outcome(o, NoFrame) :
            o \in {"tick", "tick_fail", "malformed", "non_text", "read_error"}}
         \cup {Outcome("text", f) : f \in WireFrames}
    ELSE {Outcome(o, NoFrame) : o \in {"tick_fail", "read_error"}}

\* the result of a .send(): a broken transport accepts nothing
WriteResults(st) == IF st = "open" THEN {"ok", "fail"} ELSE {"fail"}

\* return values
NoChannel == [tag |-> "None", symbol |-> NoSymbol]
Ok == [tag |-> "Ok", channel |-> NoChannel]
Err(t) == [tag |-> t, channel |-> NoChannel]
NotSubscribedToThisChannel(c) ==
  [tag |-> "NotSubscribedToThisChannel", channel |-> c]
Item == [tag |-> "Item", channel |-> NoChannel]
NoResult == [tag |-> "None", channel |-> NoChannel]

\* next_response without the test for Pong
next_response_PongReturned(o, seq) ==
  CASE o.o = "tick" ->
         [ret |-> "continue", err |-> "", ping |-> TRUE, response |-> Decode(NoFrame, 0)]
    [] o.o \in {"tick_fail", "read_error"} ->
         [ret |-> "err", err |-> "Tungstenite", ping |-> FALSE, response |-> Decode(NoFrame, 0)]
    [] o.o = "malformed" ->
         [ret |-> "err", err |-> "Serde", ping |-> FALSE, response |-> Decode(NoFrame, 0)]
    [] o.o = "non_text" ->
         [ret |-> "continue", err |-> "", ping |-> FALSE, response |-> Decode(NoFrame, 0)]
    [] o.o = "text" ->
         [ret |-> "ok", err |-> "", ping |-> FALSE, response |-> Decode(o.frame, seq)]

\* next_response returning an empty response for a message that is no text
next_response_NonTextReturned(o, seq) ==
  CASE o.o = "tick" ->
         [ret |-> "continue", err |-> "", ping |-> TRUE, response |-> Decode(NoFrame, 0)]
    [] o.o \in {"tick_fail", "read_error"} ->
         [ret |-> "err", err |-> "Tungstenite", ping |-> FALSE, response |-> Decode(NoFrame, 0)]
    [] o.o = "malformed" ->
         [ret |-> "err", err |-> "Serde", ping |-> FALSE, response |-> Decode(NoFrame, 0)]
    [] o.o = "non_text" ->
         [ret |-> "ok", err |-> "", ping |-> FALSE, response |-> Decode(NoFrame, 0)]
    [] o.o = "text" ->
         IF o.frame.type = "Pong"
           THEN [ret |-> "continue", err |-> "", ping |-> FALSE, response |-> Decode(NoFrame, 0)]
           ELSE [ret |-> "ok", err |-> "", ping |-> FALSE, response |-> Decode(o.frame, seq)]

\* next_response with the two "?" on the transport replaced by "continue"
next_response_ErrorsSwallowed(o, seq) ==
  CASE o.o \in {"tick", "tick_fail", "read_error", "non_text"} ->
         [ret |-> "continue", err |-> "", ping |-> FALSE, response |-> Decode(NoFrame, 0)]
    [] o.o = "malformed" ->
         [ret |-> "err", err |-> "Serde", ping |-> FALSE, response |-> Decode(NoFrame, 0)]
    [] o.o = "text" ->
         IF o.frame.type = "Pong"
           THEN [ret |-> "continue", err |-> "", ping |-> FALSE, response |-> Decode(NoFrame, 0)]
           ELSE [ret |-> "ok", err |-> "", ping |-> FALSE, response |-> Decode(o.frame, seq)]

\* FtxWsClient::next_response, one pass of its loop on outcome o:
\*   "continue" (ping sent, Pong skipped, non-text message ignored),
\*   "ok" with the decoded response, or "err".
next_response(o, seq) ==
  CASE o.o = "tick" ->
         [ret |-> "continue", err |-> "", ping |-> TRUE, response |-> Decode(NoFrame, 0)]
    [] o.o = "tick_fail" ->
         [ret |-> "err", err |-> "Tungstenite", ping |-> FALSE, response |-> Decode(NoFrame, 0)]
    [] o.o = "read_error" ->
         [ret |-> "err", err |-> "Tungstenite", ping |-> FALSE, response |-> Decode(NoFrame, 0)]
    [] o.o = "malformed" ->
         [ret |-> "err", err |-> "Serde", ping |-> FALSE, response |-> Decode(NoFrame, 0)]
    [] o.o = "non_text" ->
         [ret |-> "continue", err |-> "", ping |-> FALSE, response |-> Decode(NoFrame, 0)]
    [] o.o = "text" ->
         IF o.frame.type = "Pong"
           THEN [ret |-> "continue", err |-> "", ping |-> FALSE, response |-> Decode(NoFrame, 0)]
           ELSE [ret |-> "ok", err |-> "", ping |-> FALSE, response |-> Decode(o.frame, seq)]

\* the match with "_" as its first arm: every response ends the wait
IsConfirmation_AnyResponse(response, subscribe) == TRUE

\* the match of subscribe_or_unsubscribe: does the response end the wait?
IsConfirmation(response, subscribe) ==
  \/ response.type = "Subscribed" /\ subscribe
  \/ response.type = "Unsubscribed" /\ ~subscribe

(* ------------------------------- state -------------------------------- *)
VARIABLES
  scope,             \* which inputs the run explores (see Scopes); fixed
  auth_settings,     \* TRUE: Some(FtxAuthSettings); fixed at construction
  channels,          \* Vec<WsChannel>
  stream,            \* "none": None; "open": Some; "broken": Some, transport lost
  buf,               \* VecDeque<(Option<Symbol>, EventData)>
  is_authenticated,
  pc,                \* "idle", "wait" (in subscribe_or_unsubscribe), "poll"
                     \* (in poll_next), "panicked"
  op,                \* the current or last call
  req,               \* its channel list
  k,                 \* index in req of the request awaiting confirmation
  i,                 \* frames inspected for that request
  result,            \* what the last call returned
  started,           \* the client was moved into event_loop
  boundary,          \* Len(wire) when the current session was opened
  wire,              \* payload-carrying frames read, in arrival order
  delivered,         \* events handed to the consumer, in order
  callOut,           \* control frames written during the current or last call
  pings,             \* ping frames written during the current or last call
  lost,              \* channels when a lost session was replaced by this one
  resent,            \* how many leading channels of lost had their subscribe
                     \* frame written again in this session, in order
  exact,             \* every confirmation accepted in this call named the
                     \* channel and market of the request it completed
  confirmedBy,       \* tag of the frame that last completed a request of
                     \* this call
  mark,              \* Len(wire) when the current or last call began
  pre,               \* channels when the current or last call began
  prevSub,           \* set in unsubscribe(cs) when the call before it was a
                     \* successful subscribe(cs): channels before that subscribe
  errorRead,         \* a frame tagged Error was read during the current or
                     \* last call
  inspected          \* well-formed text frames other than Pong read since the
                     \* request awaiting confirmation was written

vars ==
  << scope, auth_settings, channels, stream, buf, is_authenticated, pc, op, req, k, i,
     result, started, boundary, wire, delivered, callOut, pings, lost, resent,
     exact, confirmedBy, mark, pre, prevSub, errorRead, inspected >>

\* "control": every channel list, frames without payload, Error frames,
\*            keepalive ticks, payload-free frames one at a time;
\* "data": one channel list, frames with payloads, among them a confirmation
\*         with a payload while no request of its direction is in flight;
\* "payloads": one channel list, the payload kinds "data" leaves out;
\* "session": as "data" with one kind of payload, and the history of
\*            replaced sessions (boundary, lost, resent) is kept
Scopes == {"control", "data", "payloads", "session"}

NoPrev == [ok |-> FALSE, pre |-> <<>>]

\* FtxWsClient::new
Init ==
  /\ scope \in Scopes
  /\ auth_settings \in BOOLEAN
  /\ channels = <<>>
  /\ stream = "none"
  /\ buf = <<>>
  /\ is_authenticated = FALSE
  /\ pc = "idle"
  /\ op = "none"
  /\ req = <<>>
  /\ k = 0
  /\ i = 0
  /\ result = NoResult
  /\ started = FALSE
  /\ boundary = 0
  /\ wire = <<>>
  /\ delivered = <<>>
  /\ callOut = <<>>
  /\ pings = 0
  /\ lost = <<>>
  /\ resent = 0
  /\ exact = TRUE
  /\ confirmedBy = "None"
  /\ mark = 0
  /\ pre = <<>>
  /\ prevSub = NoPrev
  /\ errorRead = FALSE
  /\ inspected = 0

\* channel lists the consumer passes
ReqLists ==
  IF scope = "control"
    THEN {<<>>} \cup {<<c>> : c \in Channels}
         \cup { <<Orderbook(BTC), Trades(ETH)>>, <<Orderbook(BTC), Orderbook(BTC)>>,
                <<Orderbook(BTC), Fills>>, <<Trades(ETH), Orders>>,
                <<Fills, Orderbook(BTC)>> }
    ELSE {<<Orderbook(BTC), Trades(ETH)>>}

\* the replay history after a control frame for channel c was written
Resent(subscribe, c) ==
  IF subscribe /\ resent < Len(lost) /\ lost[resent + 1] = c
    THEN resent + 1
    ELSE resent

\* a call begins: the per-call history is reset
BeginCall(name, cs) ==
  /\ pc = "idle"
  /\ op' = name
  /\ req' = cs
  /\ pre' = channels
  /\ exact' = TRUE
  /\ confirmedBy' = "None"
  /\ mark' = Len(wire)
  /\ pings' = 0
  /\ errorRead' = FALSE
  /\ prevSub' = IF name = "unsubscribe" /\ op = "subscribe" /\ result = Ok /\ cs = req
                  THEN [ok |-> TRUE, pre |-> pre]
                  ELSE NoPrev

(* ------------------------------ connect ------------------------------- *)
\* history: connect_async succeeded; a session that was lost is replaced
NewSession ==
  /\ boundary' = IF scope = "session" THEN Len(wire) ELSE 0
  /\ lost' = IF scope = "session" /\ stream = "broken" THEN channels ELSE <<>>
  /\ resent' = 0

\* connect leaving the flag to an acknowledgement of the login, never read
Authenticated_AfterAck(was, settings) == was

\* is_authenticated after "if let Some(_) = self.auth_settings { .. }"
Authenticated(was, settings) == was \/ settings

\* FtxWsClient::connect, with authenticate inlined
connect(co) ==
  /\ ~started
  /\ BeginCall("connect", <<>>)
  /\ k' = 0 /\ i' = 0 /\ inspected' = 0
  /\ UNCHANGED << scope, auth_settings, channels, buf, started, wire, delivered >>
  /\ \/ /\ co = "refused"          \* connect_async(..).await? fails
        /\ result' = Err("Tungstenite")
        /\ pc' = "idle"
        /\ callOut' = <<>>
        /\ UNCHANGED << stream, is_authenticated, boundary, lost, resent >>
     \/ /\ co = "ok"
        /\ stream' = "open"
        /\ NewSession
        /\ \E timestamp \in Timestamps :
             callOut' = IF auth_settings THEN <<LoginFrame(timestamp)>> ELSE <<>>
        /\ is_authenticated' = Authenticated(is_authenticated, auth_settings)
        /\ result' = Ok
        /\ pc' = "idle"
     \/ /\ co = "login_fail"       \* authenticate: .send(..).await.unwrap()
        /\ auth_settings
        /\ stream' = "broken"
        /\ NewSession
        /\ callOut' = <<>>
        /\ result' = NoResult
        /\ pc' = "panicked"
        /\ UNCHANGED is_authenticated

Connect == \E co \in {"refused", "ok", "login_fail"} : connect(co)

(* ----------------------- subscribe / unsubscribe ---------------------- *)
AuthOnly(c) == c = Fills \/ c = Orders

\* the loop of subscribe with the test for Orders left out
FirstUnauthenticated_FillsOnly(cs, authed) ==
  IF \E n \in 1..Len(cs) : cs[n] = Fills /\ ~authed
    THEN CHOOSE n \in 1..Len(cs) :
           /\ cs[n] = Fills /\ ~authed
           /\ \A m \in 1..(n - 1) : ~(cs[m] = Fills /\ ~authed)
    ELSE 0

\* the loop of subscribe: index of the first channel it rejects, 0 if none
FirstUnauthenticated(cs, authed) ==
  IF \E n \in 1..Len(cs) : AuthOnly(cs[n]) /\ ~authed
    THEN CHOOSE n \in 1..Len(cs) :
           /\ AuthOnly(cs[n]) /\ ~authed
           /\ \A m \in 1..(n - 1) : ~(AuthOnly(cs[m]) /\ ~authed)
    ELSE 0

\* the loop of unsubscribe looking at the first channel of the list only
FirstNotSubscribed_HeadOnly(cs, chans) ==
  IF cs # <<>> /\ ~Contains(chans, cs[1]) THEN 1 ELSE 0

\* the loop of unsubscribe: index of the first channel it rejects, 0 if none
FirstNotSubscribed(cs, chans) ==
  IF \E n \in 1..Len(cs) : ~Contains(chans, cs[n])
    THEN CHOOSE n \in 1..Len(cs) :
           /\ ~Contains(chans, cs[n])
           /\ \A m \in 1..(n - 1) : Contains(chans, cs[m])
    ELSE 0

\* subscribe with the push moved behind the confirmation, and never reached
Pushed_Nothing(chans, cs, n) == chans

\* subscribe pushing the whole list ahead of its loop
Pushed_All(chans, cs, n) == chans \o cs

\* the loop of subscribe after n passes: self.channels.push(channel.clone())
Pushed(chans, cs, n) == chans \o SubSeq(cs, 1, n)

\* channels after the last request of a call was confirmed
ChannelsAfter(name, chans, cs) ==
  CASE name = "subscribe" -> chans
    [] name = "unsubscribe" -> RetainNotIn(chans, cs)
    [] name = "unsubscribe_all" -> <<>>

\* does the wire frame name the channel and market of request c?
Names(f, c) ==
  /\ f.channel = WireName(c).channel
  /\ f.market = (IF WireName(c).market = "" THEN NoMarket ELSE WireName(c).market)

\* the call returns v
Return(v) ==
  /\ result' = v
  /\ pc' = "idle"
  /\ k' = 0
  /\ i' = 0
  /\ inspected' = 0

\* self.stream.as_mut().unwrap() on None, or .unwrap() on an Err
Panic ==
  /\ result' = NoResult
  /\ pc' = "panicked"
  /\ k' = 0
  /\ i' = 0
  /\ inspected' = 0

\* subscribe_or_unsubscribe, the head of one pass of 'channels: the control
\* frame of cs[kk] is written (w: what the write does), then the wait begins
SendRequest(cs, subscribe, kk, w, out) ==
  IF stream = "none"
    THEN Panic /\ callOut' = out /\ UNCHANGED << stream, resent >>
    ELSE /\ w \in WriteResults(stream)
         /\ IF w = "ok"
              THEN /\ callOut' = Append(out, ControlFrame(OpName(subscribe), cs[kk]))
                   /\ resent' = Resent(subscribe, cs[kk])
                   /\ pc' = "wait"
                   /\ k' = kk
                   /\ i' = 0
                   /\ inspected' = 0
                   /\ result' = NoResult
                   /\ UNCHANGED stream
              ELSE /\ callOut' = out
                   /\ stream' = "broken"
                   /\ Return(Err("Tungstenite"))
                   /\ UNCHANGED resent

\* subscribe_or_unsubscribe from its first line, after the caller's checks
StartRequests(name, cs, w) ==
  IF cs = <<>>
    THEN /\ Return(Ok)
         /\ callOut' = <<>>
         /\ channels' = ChannelsAfter(name, channels, cs)
         /\ UNCHANGED << stream, resent >>
    ELSE /\ SendRequest(cs, name = "subscribe", 1, w, <<>>)
         /\ channels' = IF name = "subscribe" THEN Pushed(channels, cs, Len(cs))
                                               ELSE channels

\* FtxWsClient::subscribe up to its first await
subscribe(cs, w) ==
  /\ ~started
  /\ BeginCall("subscribe", cs)
  /\ Len(channels) + Len(cs) <= MaxChannels
  /\ UNCHANGED << scope, auth_settings, buf, is_authenticated, started, boundary, wire,
                  delivered, lost >>
  /\ LET bad == FirstUnauthenticated(cs, is_authenticated) IN
       IF bad > 0
         THEN /\ channels' = Pushed(channels, cs, bad - 1)
              /\ Return(Err("SocketNotAuthenticated"))
              /\ callOut' = <<>>
              /\ UNCHANGED << stream, resent >>
         ELSE StartRequests("subscribe", cs, w)

\* FtxWsClient::unsubscribe up to its first await
unsubscribe(cs, w) ==
  /\ ~started
  /\ BeginCall("unsubscribe", cs)
  /\ UNCHANGED << scope, auth_settings, buf, is_authenticated, started, boundary, wire,
                  delivered, lost >>
  /\ LET bad == FirstNotSubscribed(cs, channels) IN
       IF bad > 0
         THEN /\ Return(NotSubscribedToThisChannel(cs[bad]))
              /\ callOut' = <<>>
              /\ UNCHANGED << channels, stream, resent >>
         ELSE StartRequests("unsubscribe", cs, w)

\* FtxWsClient::unsubscribe_all up to its first await
unsubscribe_all(w) ==
  /\ ~started
  /\ BeginCall("unsubscribe_all", channels)
  /\ UNCHANGED << scope, auth_settings, buf, is_authenticated, started, boundary, wire,
                  delivered, lost >>
  /\ StartRequests("unsubscribe_all", channels, w)

Subscribe == \E cs \in ReqLists, w \in {"ok", "fail"} : subscribe(cs, w)
Unsubscribe == \E cs \in ReqLists, w \in {"ok", "fail"} : unsubscribe(cs, w)
UnsubscribeAll == \E w \in {"ok", "fail"} : unsubscribe_all(w)

(* ------------------------- reading the transport ---------------------- *)
HasPayload(o) == o.o = "text" /\ o.frame.data.kind # "none"

\* a frame that a wait counts and that changes nothing else
Silent(o) ==
  /\ o.o = "text"
  /\ o.frame.data.kind = "none"
  /\ o.frame.type # "Pong"
  /\ ~IsConfirmation(o.frame, op = "subscribe")

\* the outcomes explored in the current state
Allowed(o) ==
  /\ o \in Outcomes(stream)
  /\ o.o = "tick" => (pings < MaxPings /\ scope = "control")
  /\ HasPayload(o) =>
       /\ Len(wire) < MaxFrames
       /\ scope # "control"
       /\ scope = "session" => o.frame = WireFrame("Update", "ticker", BTC, TickerPayload)
       /\ scope = "data" => o.frame.data.kind \in {"ticker", "trades"}
       /\ scope = "payloads" => o.frame.data.kind \in {"orderbook", "fill", "order"}
  /\ (pc = "wait" /\ Silent(o))
       => ((i < MaxSingles /\ scope = "control") \/ i = ConfirmationWindow - 1)
  /\ (o.o = "text" /\ o.frame.type = "Error") => scope = "control"
  /\ (HasPayload(o) /\ o.frame.type \in {"Subscribed", "Unsubscribed"})
       => /\ scope = "data"
          /\ ~(pc = "wait" /\ IsConfirmation(o.frame, op = "subscribe"))

\* the wire history: every payload-carrying frame read, whatever its tag
Arrive(o) ==
  /\ wire' = IF HasPayload(o)
              THEN Append(wire, [type |-> o.frame.type, n |-> o.frame.data.n,
                                 kind |-> o.frame.data.kind,
                                 market |-> o.frame.market])
              ELSE wire
  /\ errorRead' = (errorRead \/ (o.o = "text" /\ o.frame.type = "Error"))

\* the tick arm calling ping twice
Continue_PingTwice(r) ==
  pings' = IF r.ping THEN pings + 2 ELSE pings

\* the count of inspected frames after outcome o
Inspected(o) ==
  IF o.o = "text" /\ o.frame.type # "Pong" THEN inspected + 1 ELSE inspected

\* the effect of a pass of next_response that does not return
Continue(r) ==
  pings' = IF r.ping THEN pings + 1 ELSE pings

\* subscribe_or_unsubscribe, one next_response().await of the wait loop and
\* what follows it up to the next await
WaitStep(o, w) ==
  /\ pc = "wait"
  /\ Allowed(o)
  /\ w = "fail" => (o.o = "text" /\ IsConfirmation(o.frame, op = "subscribe") /\ k < Len(req))
  /\ Arrive(o)
  /\ UNCHANGED << scope, auth_settings, is_authenticated, op, req, started, boundary,
                  delivered, lost, mark, pre, prevSub >>
  /\ LET r == next_response(o, Len(wire) + 1) IN
       CASE r.ret = "continue" ->
              /\ Continue(r)
              /\ inspected' = Inspected(o)
              /\ UNCHANGED << channels, stream, buf, pc, k, i, result, exact,
                              confirmedBy, callOut, resent >>
         [] r.ret = "err" ->
              /\ Return(Err(r.err))
              /\ stream' = IF r.err = "Tungstenite" THEN "broken" ELSE stream
              /\ UNCHANGED << channels, buf, callOut, pings, resent, exact,
                              confirmedBy >>
         [] r.ret = "ok" ->
              IF IsConfirmation(r.response, op = "subscribe")
                THEN /\ exact' = (exact /\ Names(o.frame, req[k]))
                     /\ confirmedBy' = o.frame.type
                     /\ UNCHANGED << buf, pings >>
                     /\ IF k = Len(req)
                          THEN /\ Return(Ok)
                               /\ channels' = ChannelsAfter(op, channels, req)
                               /\ UNCHANGED << stream, callOut, resent >>
                          ELSE /\ SendRequest(req, op = "subscribe", k + 1, w, callOut)
                               /\ UNCHANGED channels
                ELSE /\ buf' = add_to_buffer(buf, r.response)
                     /\ UNCHANGED << channels, stream, callOut, pings, resent, exact,
                                     confirmedBy >>
                     /\ i' = i + 1
                     /\ inspected' = Inspected(o)
                     /\ IF i + 1 = ConfirmationWindow
                          THEN /\ result' = Err("MissingSubscriptionConfirmation")
                               /\ pc' = "idle"
                               /\ UNCHANGED k
                          ELSE UNCHANGED << pc, k, result >>

\* the wait loop on a run of payload-free frames that are no confirmation,
\* as many as leave one pass of the loop: each pass is the "_ =>" arm on a
\* response whose data is None
WaitRun ==
  /\ pc = "wait"
  /\ stream = "open"
  /\ i < ConfirmationWindow - 1
  /\ i' = ConfirmationWindow - 1
  /\ inspected' = inspected + (ConfirmationWindow - 1 - i)
  /\ UNCHANGED << scope, auth_settings, channels, stream, buf, is_authenticated, pc, op,
                  req, k, result, started, boundary, wire, delivered, callOut,
                  pings, lost, resent, exact, confirmedBy, mark, pre, prevSub,
                  errorRead >>

Wait == \E o \in Outcomes(stream), w \in WriteResults(stream) : WaitStep(o, w)

(* ------------------------------ the stream ---------------------------- *)
\* an item leaves poll_next: Ok to the consumer or to the handler of
\* event_loop; an Err to the consumer, or to the unwrap() of event_loop
Yield(v) ==
  IF started /\ v # Item
    THEN Panic
    ELSE Return(v)

\* pop_back in place of pop_front
PopBack(b) == [item |-> b[Len(b)], rest |-> SubSeq(b, 1, Len(b) - 1)]

\* VecDeque::pop_front on a buffer that is not empty
PopFront(b) == [item |-> Head(b), rest |-> Tail(b)]

\* Stream::poll_next from its first line
PollNext ==
  /\ BeginCall("next", <<>>)
  /\ callOut' = <<>>
  /\ UNCHANGED << scope, auth_settings, channels, stream, is_authenticated, started,
                  boundary, wire, lost, resent >>
  /\ IF buf # <<>>
       THEN /\ delivered' = Append(delivered, PopFront(buf).item)
            /\ buf' = PopFront(buf).rest
            /\ Yield(Item)
       ELSE /\ UNCHANGED << buf, delivered >>
            /\ IF stream = "none"
                 THEN Panic
                 ELSE /\ pc' = "poll"
                      /\ result' = NoResult
                      /\ k' = 0
                      /\ i' = 0
                      /\ inspected' = 0

\* poll_next, one completion of next_response and the loop up to the next
\* await or return
PollStep(o) ==
  /\ pc = "poll"
  /\ Allowed(o)
  /\ Arrive(o)
  /\ UNCHANGED << scope, auth_settings, channels, is_authenticated, op, req, started,
                  boundary, callOut, lost, resent, exact, confirmedBy, mark, pre,
                  prevSub >>
  /\ LET r == next_response(o, Len(wire) + 1) IN
       CASE r.ret = "continue" ->
              /\ Continue(r)
              /\ UNCHANGED << stream, buf, pc, k, i, result, delivered, inspected >>
         [] r.ret = "err" ->
              /\ Yield(Err(r.err))
              /\ stream' = IF r.err = "Tungstenite" THEN "broken" ELSE stream
              /\ UNCHANGED << buf, delivered, pings >>
         [] r.ret = "ok" ->
              LET b == add_to_buffer(buf, r.response) IN
                /\ UNCHANGED << stream, pings >>
                /\ IF b = <<>>
                     THEN UNCHANGED << buf, pc, k, i, result, delivered, inspected >>
                     ELSE /\ delivered' = Append(delivered, PopFront(b).item)
                          /\ buf' = PopFront(b).rest
                          /\ Yield(Item)

Poll == \E o \in Outcomes(stream) : PollStep(o)

\* FtxWsClient::start: the client moves into the spawned event_loop
Start ==
  /\ ~started
  /\ BeginCall("start", <<>>)
  /\ started' = TRUE
  /\ result' = NoResult
  /\ callOut' = <<>>
  /\ k' = 0
  /\ i' = 0
  /\ inspected' = 0
  /\ UNCHANGED << scope, auth_settings, channels, stream, buf, is_authenticated, pc,
                  boundary, wire, delivered, lost, resent >>

Next ==
  \/ Connect
  \/ Subscribe
  \/ Unsubscribe
  \/ UnsubscribeAll
  \/ Wait
  \/ WaitRun
  \/ PollNext
  \/ Poll
  \/ Start

Spec == Init /\ [][Next]_vars

\* the select! of next_response always completes: a frame or an error comes
\* from the transport, or the interval timer ticks
LiveSpec == Spec /\ WF_vars(Poll)

(* ======================================================================= *)
(* Properties                                                              *)
(* ======================================================================= *)
SubscribeFrames(cs) == [n \in 1..Len(cs) |-> ControlFrame("subscribe", cs[n])]

\* identities <<seq, idx>> of a sequence of events
Ids(events) == [n \in 1..Len(events) |-> <<events[n].seq, events[n].idx>>]

RECURSIVE IdsFrom(_, _)
\* identities of the events the payload frames from arrival number n on
\* carry, in wire order; a Pong carries none
IdsFrom(w, n) ==
  IF n > Len(w) THEN <<>>
  ELSE (IF w[n].type = "Pong" THEN <<>> ELSE [j \in 1..w[n].n |-> <<n, j>>])
       \o IdsFrom(w, n + 1)

\* <<seq, idx>> order
Before(a, b) == a[1] < b[1] \/ (a[1] = b[1] /\ a[2] < b[2])

\* C1: a subscribe whose list holds Fills or Orders on a session that is not
\* authenticated has returned SocketNotAuthenticated without an await, and
\* wrote no frame at all, none either for the channels before Fills/Orders.
C1_UnauthenticatedSubscribeWritesNothing ==
  (op = "subscribe" /\ ~is_authenticated /\ \E n \in 1..Len(req) : AuthOnly(req[n]))
    => /\ pc = "idle"
       /\ result = Err("SocketNotAuthenticated")
       /\ callOut = <<>>
       /\ pings = 0

C1_Witness ==
  /\ op = "subscribe"
  /\ req = <<Orderbook(BTC), Fills>>
  /\ stream = "open"
  /\ result = Err("SocketNotAuthenticated")

\* C2: a subscribe or unsubscribe call that returned Ok had each of its
\* requests completed by a confirmation naming that request's channel and
\* market.
C2_ConfirmationNamesRequest ==
  (op \in {"subscribe", "unsubscribe"} /\ pc = "idle" /\ result = Ok) => exact

\* C3 as stated: a successful subscribe(C), C without duplicates, followed
\* at once by a successful unsubscribe(C) leaves channels as they were.
C3_RoundTripAnyList ==
  (op = "unsubscribe" /\ pc = "idle" /\ result = Ok /\ prevSub.ok /\ NoDuplicates(req))
    => channels = prevSub.pre

\* C3 amended: the same, for lists C none of whose channels was in the
\* channels before the subscribe.
C3_RoundTripDisjointList ==
  (/\ op = "unsubscribe" /\ pc = "idle" /\ result = Ok /\ prevSub.ok
   /\ NoDuplicates(req)
   /\ \A n \in 1..Len(req) : ~Contains(prevSub.pre, req[n]))
    => channels = prevSub.pre

C3_Witness ==
  /\ op = "unsubscribe" /\ pc = "idle" /\ result = Ok /\ prevSub.ok
  /\ req = <<Orderbook(BTC)>>
  /\ prevSub.pre = <<Trades(ETH)>>
  /\ channels = <<Trades(ETH)>>

\* C4: no channel occurs twice in channels.
C4_ChannelsUnique == pc # "panicked" => NoDuplicates(channels)

\* C5: no payload frame is lost: every event of every frame read that is no
\* Pong is, exactly once, among the events delivered or buffered; when
\* subscribe or unsubscribe returns Ok the events of the frames read during
\* the call are the tail of the buffer, in wire order.
C5_WaitKeepsEvents ==
  /\ \A n \in 1..Len(IdsFrom(wire, 1)) :
       Count(Ids(delivered \o buf), IdsFrom(wire, 1)[n]) = 1
  /\ (op \in {"subscribe", "unsubscribe", "unsubscribe_all"} /\ pc = "idle" /\ result = Ok)
       => LET new == IdsFrom(wire, mark + 1) IN
            /\ Len(new) <= Len(buf)
            /\ SubSeq(Ids(buf), Len(buf) - Len(new) + 1, Len(buf)) = new

C5_Witness ==
  /\ op = "subscribe" /\ pc = "idle" /\ result = Ok
  /\ mark = 0
  /\ Len(wire) = 2 /\ wire[1].type = "Update" /\ wire[2].type = "Update"
  /\ wire[1].n = 2
  /\ Len(buf) = 3

\* C6: a wait inspects at most 100 frames; subscribe fails with
\* MissingSubscriptionConfirmation exactly when the 100th frame inspected
\* for a request is no confirmation, and then one subscribe frame was written
\* for each request begun, none twice.
C6_TimeoutAfterHundredFrames ==
  /\ pc = "wait" => i < 100
  /\ (i = 100) = (result = Err("MissingSubscriptionConfirmation"))
  /\ (op = "subscribe" /\ result = Err("MissingSubscriptionConfirmation"))
       => /\ pc = "idle"
          /\ callOut = SubscribeFrames(SubSeq(req, 1, k))

C6_Witness ==
  /\ op = "subscribe"
  /\ req = <<Orderbook(BTC)>>
  /\ result = Err("MissingSubscriptionConfirmation")
  /\ callOut = <<ControlFrame("subscribe", Orderbook(BTC))>>

\* C7: once an event read in a session that replaced a lost one has been
\* delivered, a subscribe frame was written in that session for every
\* channel that was desired when it was opened, oldest first.
C7_ReplayBeforeData ==
  (lost # <<>> /\ \E n \in 1..Len(delivered) : delivered[n].seq > boundary)
    => resent = Len(lost)

\* C8: a transport loss does not end the started event loop.
C8_LossNotFatal ==
  (started /\ stream = "broken") => pc # "panicked"

\* C9: no event in the buffer or delivered comes from a Pong frame, and no
\* request was completed by a frame other than the confirmation of its
\* direction.
C9_PongNeitherDataNorConfirmation ==
  /\ \A n \in 1..Len(delivered \o buf) :
       wire[(delivered \o buf)[n].seq].type # "Pong"
  /\ confirmedBy \in
       {"None", IF op = "subscribe" THEN "Subscribed" ELSE "Unsubscribed"}

C9_Witness ==
  /\ pc = "wait" /\ i = 0 /\ k = 1
  /\ Len(wire) = 2
  /\ wire[1].type = "Pong" /\ wire[2].type = "Pong"
  /\ mark = 1
  /\ buf = <<>> /\ delivered = <<>>

\* C10: the events delivered, and after them the events buffered, are in
\* strictly increasing wire order: none twice, none before an earlier one.
C10_DeliveryInWireOrder ==
  LET ids == Ids(delivered \o buf) IN
    /\ \A n \in 1..(Len(ids) - 1) : Before(ids[n], ids[n + 1])
    /\ \A n \in 1..Len(ids) : ids[n][1] \in 1..Len(wire)

C10_Witness ==
  /\ Len(delivered) = 3
  /\ delivered[1].seq = 1 /\ delivered[3].seq = 2
  /\ mark = 2
  /\ channels # <<>>

\* C11: an unsubscribe whose list holds a channel that was not in channels
\* has returned NotSubscribedToThisChannel for the first such channel without
\* an await: no frame was written, none either for the listed channels that
\* are subscribed, and channels are what they were.
C11_UnsubscribeUnknownWritesNothing ==
  (op = "unsubscribe" /\ \E n \in 1..Len(req) : ~Contains(pre, req[n]))
    => /\ pc = "idle"
       /\ result.tag = "NotSubscribedToThisChannel"
       /\ Contains(req, result.channel)
       /\ ~Contains(pre, result.channel)
       /\ \A n \in 1..Len(req) :
            (\A m \in 1..(n - 1) : Contains(pre, req[m])) /\ ~Contains(pre, req[n])
              => result.channel = req[n]
       /\ callOut = <<>>
       /\ pings = 0
       /\ channels = pre

C11_Witness ==
  /\ op = "unsubscribe"
  /\ req = <<Orderbook(BTC), Fills>>
  /\ pre = <<Orderbook(BTC)>>
  /\ stream = "open"
  /\ result = NotSubscribedToThisChannel(Fills)
  /\ channels = <<Orderbook(BTC)>>

\* C12: a call during which a frame tagged Error was read has surfaced it:
\* next() returned an item that is neither a data event nor a transport or
\* decode error; a subscribe or unsubscribe left an error item in the buffer.
C12_ErrorFrameSurfaced ==
  (errorRead /\ pc = "idle")
    => \/ op = "next" /\ result.tag \notin {"Item", "Tungstenite", "Serde"}
       \/ op # "next" /\ \E n \in 1..Len(buf) : buf[n].kind = "Error"

\* C13: next() never ends the sequence: it returns an event or an error; a
\* transport loss met while reading makes it return the error at once; the
\* error is returned only when the buffer is empty; and a consumer waiting in
\* next() on a lost transport eventually gets the error.
C13_LossEndsInError ==
  /\ [](op = "next" /\ pc = "idle"
          => result = Item \/ result.tag \in {"Tungstenite", "Serde"})
  /\ []((op = "next" /\ pc = "idle" /\ result.tag = "Tungstenite") => buf = <<>>)
  /\ [][(pc = "poll" /\ ~started /\ stream = "open" /\ stream' = "broken")
          => (pc' = "idle" /\ result' = Err("Tungstenite"))]_vars
  /\ ((pc = "poll" /\ ~started /\ stream = "broken")
        ~> (pc = "idle" /\ result = Err("Tungstenite")))

C13_Witness ==
  /\ op = "next" /\ pc = "idle" /\ ~started
  /\ stream = "broken"
  /\ result = Err("Tungstenite")
  /\ Len(delivered) = 2
  /\ buf = <<>>

\* C14: no sequence of calls and transport events aborts the client or its
\* event loop: every failure is a returned error value.
C14_ErrorsAreValues == pc # "panicked"

RequestFrames(name, cs) ==
  [n \in 1..Len(cs) |-> ControlFrame(OpName(name = "subscribe"), cs[n])]

\* C16: the control frames written in a subscribe or unsubscribe call are
\* the frames of a prefix of its list, in input order; while a request awaits
\* its confirmation exactly the frames up to that request are written; a
\* further frame is written only in the step that accepts a confirmation, one
\* at a time; a call that has returned writes nothing more.
C16_RequestsSerialized ==
  /\ [](op \in {"subscribe", "unsubscribe", "unsubscribe_all"}
          => /\ Len(callOut) <= Len(req)
             /\ callOut = SubSeq(RequestFrames(op, req), 1, Len(callOut))
             /\ pc = "wait" => (k = Len(callOut) /\ result = NoResult)
             /\ result.tag \in {"MissingSubscriptionConfirmation", "Tungstenite", "Serde"}
                  => pc = "idle")
  /\ [][(pc = "wait" /\ callOut' # callOut)
          => /\ callOut' = Append(callOut, ControlFrame(OpName(op = "subscribe"), req[k + 1]))
             /\ confirmedBy' = (IF op = "subscribe" THEN "Subscribed" ELSE "Unsubscribed")
             /\ pc' = "wait" /\ k' = k + 1]_vars
  /\ [][(pc = "idle" /\ pc' = "idle") => Len(callOut') <= 1]_vars

C16_Witness ==
  /\ op = "unsubscribe" /\ pc = "wait" /\ k = 2
  /\ req = <<Orderbook(BTC), Trades(ETH)>>
  /\ callOut = << ControlFrame("unsubscribe", Orderbook(BTC)),
                  ControlFrame("unsubscribe", Trades(ETH)) >>

\* C17: after subscribe failed with MissingSubscriptionConfirmation channels
\* are the channels before the call followed by the whole input list, also
\* the channels whose frame was never written; after unsubscribe or
\* unsubscribe_all failed with it channels are what they were before the
\* call, also the channels whose unsubscribe was confirmed.
C17_TimeoutKeepsAttempt ==
  (pc = "idle" /\ result = Err("MissingSubscriptionConfirmation"))
    => /\ op = "subscribe"
            => /\ channels = pre \o req
               /\ \A n \in 1..Len(req) : Contains(channels, req[n])
       /\ op \in {"unsubscribe", "unsubscribe_all"} => channels = pre

C17_Witness ==
  /\ op = "subscribe" /\ pc = "idle"
  /\ result = Err("MissingSubscriptionConfirmation")
  /\ req = <<Orderbook(BTC), Trades(ETH)>>
  /\ callOut = <<ControlFrame("subscribe", Orderbook(BTC))>>
  /\ channels = <<Orderbook(BTC), Trades(ETH)>>

\* C18: a connect that returned Ok on a client with credentials wrote one
\* frame, the login frame, and set is_authenticated, having read no inbound
\* frame; on a client without credentials it wrote nothing and
\* is_authenticated is FALSE; on an authenticated client subscribe never
\* fails with SocketNotAuthenticated.
C18_LoginWithoutAck ==
  /\ (op = "connect" /\ pc = "idle" /\ result = Ok)
       => /\ Len(wire) = mark /\ ~errorRead /\ pings = 0
          /\ IF auth_settings
               THEN Len(callOut) = 1 /\ callOut[1].op = "login" /\ is_authenticated
               ELSE callOut = <<>> /\ ~is_authenticated
  /\ ~auth_settings => ~is_authenticated
  /\ (op = "subscribe" /\ is_authenticated)
       => result # Err("SocketNotAuthenticated")

C18_Witness ==
  /\ auth_settings /\ is_authenticated
  /\ op = "subscribe" /\ req = <<Fills>>
  /\ pc = "wait" /\ i = 0
  /\ callOut = <<ControlFrame("subscribe", Fills)>>
  /\ wire = <<>> /\ ~errorRead

\* C19: a malformed text frame ends no subscribe or unsubscribe call: none
\* of them returns the decode error.
C19_MalformedDoesNotAbort ==
  op \in {"subscribe", "unsubscribe", "unsubscribe_all"} => result # Err("Serde")

\* C20: a step that writes a ping is taken inside a wait for the next
\* inbound frame (in poll_next or in a confirmation wait), writes exactly one
\* ping and changes nothing else: the wait goes on with the same request, the
\* same count of inspected frames, no frame consumed and no result; no state
\* of the client depends on a Pong having arrived.
C20_TickOnlyPings ==
  [][pings' > pings
      => /\ pc \in {"wait", "poll"}
         /\ pings' = pings + 1
         /\ UNCHANGED << scope, auth_settings, channels, stream, buf, is_authenticated,
                         pc, op, req, k, i, result, started, boundary, wire, delivered,
                         callOut, lost, resent, exact, confirmedBy, mark, pre, prevSub,
                         errorRead, inspected >>]_vars

C20_Witness ==
  /\ op = "subscribe" /\ pc = "idle" /\ result = Ok
  /\ req = <<Orderbook(BTC), Trades(ETH)>>
  /\ pings = 1
  /\ stream = "open"

\* C21: a Subscribed or Unsubscribed frame read while no request of its
\* direction is in flight is discarded: no event buffered or delivered comes
\* from such a frame, no request is completed by a confirmation of the other
\* direction, and a read of the event stream leaves channels as they were.
C21_UnmatchedConfirmationDiscarded ==
  /\ \A n \in 1..Len(delivered \o buf) :
       wire[(delivered \o buf)[n].seq].type \notin {"Subscribed", "Unsubscribed"}
  /\ op = "subscribe" => confirmedBy # "Unsubscribed"
  /\ op \in {"unsubscribe", "unsubscribe_all"} => confirmedBy # "Subscribed"
  /\ op = "next" => channels = pre

\* C22: after subscribe failed with SocketNotAuthenticated channels are the
\* channels before the call followed by the input channels that precede the
\* first Fills or Orders of the list, in input order, and no frame was
\* written for them.
C22_RejectedSubscribeKeepsPrefix ==
  (op = "subscribe" /\ pc = "idle" /\ result = Err("SocketNotAuthenticated"))
    => /\ callOut = <<>>
       /\ \E n \in 1..Len(req) :
            /\ AuthOnly(req[n])
            /\ \A m \in 1..(n - 1) : ~AuthOnly(req[m])
            /\ channels = pre \o SubSeq(req, 1, n - 1)

C22_Witness ==
  /\ op = "subscribe" /\ pc = "idle"
  /\ result = Err("SocketNotAuthenticated")
  /\ req = <<Trades(ETH), Orders>>
  /\ pre = <<>>
  /\ channels = <<Trades(ETH)>>
  /\ callOut = <<>>

\* C23: the frames a wait counts are the well-formed text frames other than
\* Pong: the count of the loop is the number of such frames read for the
\* request, whatever Pongs, non-text messages and ticks came between, and
\* MissingSubscriptionConfirmation is the result exactly when that number
\* is 100.
C23_OnlyInspectedFramesCount ==
  /\ pc = "wait" => (i = inspected /\ inspected < 100)
  /\ (result = Err("MissingSubscriptionConfirmation")) = (inspected = 100)
  /\ inspected <= 100

C23_Witness ==
  /\ op = "subscribe" /\ pc = "idle"
  /\ result = Err("MissingSubscriptionConfirmation")
  /\ inspected = 100
  /\ mark = 0 /\ Len(wire) = 2
  /\ wire[1].type = "Pong" /\ wire[2].type = "Pong"

\* the events the payload frame with arrival number seq stands for
Expansion(f, seq) ==
  CASE f.type = "Pong" -> <<>>
    [] f.kind = "trades" -> [j \in 1..f.n |-> Event(f.market, "Trade", seq, j)]
    [] f.kind \in {"ticker", "orderbook", "fill", "order"} ->
         <<Event(f.market, f.kind, seq, 1)>>

====
